---- MODULE Spec2Model ----
(***************************************************************************)
(* Model of the traceability dashboard script (src/main.py).  Every        *)
(* browser session reruns the script top to bottom; the two loaders are    *)
(* memoized process-wide (st.cache_data / st.cache_resource) and           *)
(* st.session_state survives the reruns of one session.                    *)
(*                                                                         *)
(* Strings that the code parses are sequences of one-character strings.    *)
(* Coordinates are integers (degrees); a float cell is a record            *)
(* [nan, v] so that pandas' NaN is a value of its own.                     *)
(***************************************************************************)
EXTENDS Integers, Sequences, FiniteSets, TLC

VARIABLES
    results,              \* response.json()['results'] of the KoboToolbox asset
    peatFile,             \* data/INDONESIA PEATLAND 2017.zip
    paFile,               \* data/Protected_Areas_Generalized.zip
    sessions,             \* the browser sessions running the script
    koboCache,            \* st.cache_data entry of load_kobo_data
    spatialCache,         \* st.cache_resource entry of load_spatial_data
    lock,                 \* compute lock of load_spatial_data: owner or 0
    build,                \* locals of the running load_spatial_data call
    pc,                   \* position of each session's script run
    df,                   \* the run's dataframe (copy handed out by the cache)
    peatland_gdf,         \* the run's reference to the cached peatland layer
    protected_areas_gdf,  \* the run's reference to the cached protected layer
    survey_gdf,           \* the run's point geodataframe
    points_in_protected_areas,  \* result rows of gpd.sjoin
    membership,           \* membership columns written on df
    selected_groups,      \* st.session_state.selected_groups
    multiselect,          \* value the farmer-group multiselect returned last
    filtered_df,          \* row labels of filtered_df
    markers,              \* CircleMarkers added to the map
    alert1,               \* Alert 1 container
    alert2,               \* Alert 2 container
    errors,               \* st.error / uncaught exception shown by the run
    prevMembership        \* membership columns of the session's previous completed run

vars == <<results, peatFile, paFile, sessions, koboCache, spatialCache, lock,
          build, pc, df, peatland_gdf, protected_areas_gdf, survey_gdf,
          points_in_protected_areas, membership, selected_groups, multiselect, filtered_df,
          markers, alert1, alert2, errors, prevMembership>>

(***************************************************************************)
(* Bounds                                                                  *)
(***************************************************************************)
MaxRecords == 3           \* longest batch of survey records explored

AllSessions == {1, 2}

(***************************************************************************)
(* Float cells                                                             *)
(***************************************************************************)
Num(n) == [nan |-> FALSE, v |-> n]
NaN == [nan |-> TRUE, v |-> 0]

(***************************************************************************)
(* str.split(' '): cut at every single space, empty tokens are kept        *)
(***************************************************************************)
RECURSIVE StrSplit(_)
StrSplit(s) ==
    IF \A i \in 1..Len(s) : s[i] # " "
    THEN <<s>>
    ELSE LET k == CHOOSE i \in 1..Len(s) :
                      s[i] = " " /\ \A j \in 1..(i-1) : s[j] # " "
         IN  <<SubSeq(s, 1, k-1)>> \o StrSplit(SubSeq(s, k+1, Len(s)))

Digits == {"0", "1", "2", "3", "4", "5", "6", "7", "8", "9"}

DigitVal(c) ==
    CASE c = "0" -> 0 [] c = "1" -> 1 [] c = "2" -> 2 [] c = "3" -> 3
      [] c = "4" -> 4 [] c = "5" -> 5 [] c = "6" -> 6 [] c = "7" -> 7
      [] c = "8" -> 8 [] c = "9" -> 9

IsDigits(t) == Len(t) > 0 /\ \A i \in 1..Len(t) : t[i] \in Digits

RECURSIVE DigitsValue(_)
DigitsValue(t) ==
    IF Len(t) = 0 THEN 0
    ELSE 10 * DigitsValue(SubSeq(t, 1, Len(t)-1)) + DigitVal(t[Len(t)])

(* float(token) restricted to signed integer literals: [ok, v].           *)
ToFloat(t) ==
    IF IsDigits(t) THEN [ok |-> TRUE, v |-> DigitsValue(t)]
    ELSE IF Len(t) > 1 /\ t[1] = "-" /\ IsDigits(Tail(t))
         THEN [ok |-> TRUE, v |-> 0 - DigitsValue(Tail(t))]
    ELSE IF Len(t) > 1 /\ t[1] = "+" /\ IsDigits(Tail(t))
         THEN [ok |-> TRUE, v |-> DigitsValue(Tail(t))]
    ELSE [ok |-> FALSE, v |-> 0]

Max(S) == CHOOSE m \in S : \A n \in S : n <= m

(* .str.split(' ', expand=True): one column per token position, the       *)
(* number of columns is the longest token list of the batch.              *)
ExpandWidth(rows) ==
    IF Len(rows) = 0 THEN 0
    ELSE Max({Len(StrSplit(rows[i].loc)) : i \in 1..Len(rows)})

(* one cell of .iloc[:, :2].astype(float): a missing token (None padding) *)
(* becomes NaN, a token goes through float().                             *)
CellOk(loc, col) ==
    LET toks == StrSplit(loc)
    IN  Len(toks) < col \/ ToFloat(toks[col]).ok

Cell(loc, col) ==
    LET toks == StrSplit(loc)
    IN  IF Len(toks) < col THEN NaN ELSE Num(ToFloat(toks[col]).v)

(* df[['lat', 'lon']] = ... raises when the frame has fewer than two      *)
(* columns or when some cell of the first two columns is not a float.     *)
SplitRaises(rows) ==
    \/ ExpandWidth(rows) < 2
    \/ \E i \in 1..Len(rows) : \E col \in 1..2 : ~CellOk(rows[i].loc, col)

ParsedRow(r) ==
    [id |-> r.id, loc |-> r.loc, group |-> r.group,
     lat |-> Cell(r.loc, 1), lon |-> Cell(r.loc, 2)]

ParsedRows(rows) == [i \in 1..Len(rows) |-> ParsedRow(rows[i])]

EmptyFrame == [empty |-> TRUE, rows |-> <<>>]
Frame(rows) == [empty |-> Len(rows) = 0, rows |-> rows]

(***************************************************************************)
(* Polygon layers.  A geometry is a set of parts (a multi-polygon has      *)
(* several); a part is a closed axis-parallel box.                         *)
(***************************************************************************)
Box(x1, y1, x2, y2) == [xmin |-> x1, ymin |-> y1, xmax |-> x2, ymax |-> y2]

NoneLayer == [none |-> TRUE, crs |-> "none", geoms |-> <<>>, datecol |-> "none"]

(* gpd.read_file *)
ReadFile(f) ==
    [none |-> FALSE, crs |-> f.crs, geoms |-> f.geoms, datecol |-> f.datecol]

(* to_crs raises on a layer without a usable reference system *)
ToCrsRaises(layer) == layer.crs \notin {"EPSG:4326", "EPSG:3857"}

ReprojectBox(b) ==
    Box(b.xmin \div 100, b.ymin \div 100, b.xmax \div 100, b.ymax \div 100)

(* variant: the result of to_crs is dropped, the layer stays as read *)
ToCrsDiscarded(layer) == layer

(* to_crs(epsg=4326): pass-through for WGS84, otherwise reprojection *)
ToCrs(layer) ==
    IF layer.crs = "EPSG:4326" THEN layer
    ELSE [layer EXCEPT
            !.crs = "EPSG:4326",
            !.geoms = [j \in 1..Len(layer.geoms) |->
                         {ReprojectBox(b) : b \in layer.geoms[j]}]]

(* datetime columns of the protected-areas layer become strings *)
ConvertDatetimeColumns(layer) ==
    [layer EXCEPT !.datecol = IF @ = "datetime64" THEN "str" ELSE @]

(* gpd.points_from_xy(df['lon'], df['lat']) *)
PointsFromXY(rows) == [i \in 1..Len(rows) |-> [x |-> rows[i].lon, y |-> rows[i].lat]]

SurveyGdf(frame, crs) == [crs |-> crs, pts |-> PointsFromXY(frame.rows)]

NoSurvey == [crs |-> "none", pts |-> <<>>]

(* variant: a point on the boundary of a part does not count *)
IntersectsInterior(pt, geom) ==
    /\ ~pt.x.nan
    /\ ~pt.y.nan
    /\ \E b \in geom : /\ b.xmin < pt.x.v /\ pt.x.v < b.xmax
                       /\ b.ymin < pt.y.v /\ pt.y.v < b.ymax

(* predicate="intersects": interior or boundary of some part *)
Intersects(pt, geom) ==
    /\ ~pt.x.nan
    /\ ~pt.y.nan
    /\ \E b \in geom : /\ b.xmin <= pt.x.v /\ pt.x.v <= b.xmax
                       /\ b.ymin <= pt.y.v /\ pt.y.v <= b.ymax

(* gpd.sjoin(..., how="inner"): one row per intersecting (point, polygon) *)
SJoin(survey, layer) ==
    {[index |-> i, index_right |-> j] :
        <<i, j>> \in {q \in (1..Len(survey.pts)) \X (1..Len(layer.geoms)) :
                         Intersects(survey.pts[q[1]], layer.geoms[q[2]])}}

(* df.index.isin(points_in_protected_areas.index) *)
IndexIsin(n, joined) == [i \in 1..n |-> \E row \in joined : row.index = i]

(***************************************************************************)
(* Inputs                                                                  *)
(***************************************************************************)
NoGroup == "nan"

Rec(id, loc, group) == [id |-> id, loc |-> loc, group |-> group]

SampleBatches ==
    { <<Rec("F1", <<"0", " ", "2">>, "kub_a"),
        Rec("F2", <<"5", " ", "5">>, "kub_b"),
        Rec("F3", <<"1", " ", "2", " ", "9">>, NoGroup)>>,
      <<Rec("F1", <<"2", " ", "0">>, "kub_a"),
        Rec("F2", <<"-", "1", " ", "3">>, "kub_a"),
        Rec("F3", <<"7", " ", "6">>, "kub_b")>>,
      <<Rec("F1", <<"1", " ", "1", " ", "e">>, "kub_a"),
        Rec("F2", <<"x", " ", "2">>, "kub_b")>>,
      <<Rec("F1", <<"1">>, "kub_a"),
        Rec("F2", <<"0", " ", "2">>, "kub_b")>>,
      <<Rec("F1", <<"9", "1", " ", "2">>, "kub_a"),
        Rec("F2", <<"0", " ", "1">>, "kub_a")>>,
      <<Rec("F1", <<"1", " ", " ", "2">>, "kub_a"),
        Rec("F2", <<"0", " ", "2">>, "kub_b")>>,
      <<Rec("F1", <<"7">>, "kub_a")>>,
      <<>>,
      <<Rec("F1", <<"0", " ", "2">>, "kub_a"),
        Rec("F2", <<"1", " ", "2">>, "kub_b"),
        Rec("F3", <<"5", " ", "5">>, "kub_b"),
        Rec("F4", <<"1", " ", "x">>, NoGroup)>> }

Batches == {b \in SampleBatches : Len(b) <= MaxRecords}

File(readable, crs, geoms, datecol) ==
    [readable |-> readable, crs |-> crs, geoms |-> geoms, datecol |-> datecol]

ProtectedFiles ==
    { File(TRUE, "EPSG:4326",
           << {Box(0, 0, 2, 1)}, {Box(2, 1, 4, 3), Box(6, 6, 7, 7)} >>, "datetime64"),
      File(TRUE, "EPSG:3857",
           << {Box(0, 0, 200, 100)}, {Box(200, 100, 400, 300), Box(600, 600, 700, 700)} >>,
           "datetime64"),
      File(TRUE, "EPSG:4326", <<>>, "datetime64"),
      File(TRUE, "none", << {Box(0, 0, 2, 1)} >>, "datetime64"),
      File(FALSE, "none", <<>>, "none") }

PeatFiles ==
    { File(TRUE, "EPSG:4326", << {Box(4, 4, 6, 6)} >>, "none"),
      File(TRUE, "EPSG:3857", << {Box(400, 400, 600, 600)} >>, "none"),
      File(TRUE, "none", << {Box(4, 4, 6, 6)} >>, "none"),
      File(FALSE, "none", <<>>, "none") }

(***************************************************************************)
(* State after construction: nothing cached, no run started                *)
(***************************************************************************)
NoEntry == [present |-> FALSE, df |-> EmptyFrame]
NoLayers == [present |-> FALSE, peat |-> NoneLayer, pa |-> NoneLayer]
NoBuild == [peat |-> NoneLayer, pa |-> NoneLayer]
NoColumns == [c \in {} |-> <<>>]
NoMarkers == [i \in {} |-> "black"]
NoAlert == [shown |-> FALSE, title |-> "", column |-> "", rows |-> {}, num |-> 0]
Unset == [isset |-> FALSE, v |-> {}]

InitRun ==
    /\ koboCache = NoEntry
    /\ spatialCache = NoLayers
    /\ lock = 0
    /\ build = NoBuild
    /\ pc = [s \in AllSessions |-> "start"]
    /\ df = [s \in AllSessions |-> EmptyFrame]
    /\ peatland_gdf = [s \in AllSessions |-> NoneLayer]
    /\ protected_areas_gdf = [s \in AllSessions |-> NoneLayer]
    /\ survey_gdf = [s \in AllSessions |-> NoSurvey]
    /\ points_in_protected_areas = [s \in AllSessions |-> {}]
    /\ membership = [s \in AllSessions |-> NoColumns]
    /\ selected_groups = [s \in AllSessions |-> Unset]
    /\ multiselect = [s \in AllSessions |-> {}]
    /\ filtered_df = [s \in AllSessions |-> {}]
    /\ markers = [s \in AllSessions |-> NoMarkers]
    /\ alert1 = [s \in AllSessions |-> NoAlert]
    /\ alert2 = [s \in AllSessions |-> NoAlert]
    /\ errors = [s \in AllSessions |-> <<>>]
    /\ prevMembership = [s \in AllSessions |-> NoColumns]

Init ==
    /\ results \in Batches
    /\ peatFile \in PeatFiles
    /\ paFile \in ProtectedFiles
    /\ sessions = {1}
    /\ InitRun

(***************************************************************************)
(* load_kobo_data, memoized by st.cache_data(ttl=600)                      *)
(***************************************************************************)
LoadKoboData(s) ==
    /\ s \in sessions
    /\ pc[s] = "start"
    /\ IF koboCache.present
       THEN \* cache hit: a copy of the cached frame, cached st.error replayed
            /\ df' = [df EXCEPT ![s] = koboCache.df]
            /\ errors' = [errors EXCEPT ![s] =
                            IF koboCache.df.empty THEN Append(@, "RequestException") ELSE @]
            /\ pc' = [pc EXCEPT ![s] = "load_spatial"]
            /\ UNCHANGED koboCache
       ELSE \E reachable \in BOOLEAN :
            IF ~reachable
            THEN \* except RequestException: st.error, empty frame returned and cached
                 /\ koboCache' = [present |-> TRUE, df |-> EmptyFrame]
                 /\ df' = [df EXCEPT ![s] = EmptyFrame]
                 /\ errors' = [errors EXCEPT ![s] = Append(@, "RequestException")]
                 /\ pc' = [pc EXCEPT ![s] = "load_spatial"]
            ELSE IF Len(results) = 0 \/ SplitRaises(results)
            THEN \* KeyError / ValueError is not a RequestException: the run dies
                 /\ errors' = [errors EXCEPT ![s] = Append(@, "UncaughtException")]
                 /\ pc' = [pc EXCEPT ![s] = "crashed"]
                 /\ UNCHANGED <<koboCache, df>>
            ELSE /\ koboCache' = [present |-> TRUE, df |-> Frame(ParsedRows(results))]
                 /\ df' = [df EXCEPT ![s] = Frame(ParsedRows(results))]
                 /\ pc' = [pc EXCEPT ![s] = "load_spatial"]
                 /\ UNCHANGED errors
    /\ UNCHANGED <<results, peatFile, paFile, sessions, spatialCache, lock, build,
                   peatland_gdf, protected_areas_gdf, survey_gdf,
                   points_in_protected_areas, membership, selected_groups, multiselect,
                   filtered_df, markers, alert1, alert2, prevMembership>>

(* the ttl of the st.cache_data entry runs out *)
ExpireKoboCache ==
    /\ koboCache.present
    /\ koboCache' = NoEntry
    /\ UNCHANGED <<results, peatFile, paFile, sessions, spatialCache, lock, build,
                   pc, df, peatland_gdf, protected_areas_gdf, survey_gdf,
                   points_in_protected_areas, membership, selected_groups, multiselect,
                   filtered_df, markers, alert1, alert2, errors, prevMembership>>

(***************************************************************************)
(* load_spatial_data, memoized by st.cache_resource                        *)
(***************************************************************************)
UnchangedBySpatialLoad ==
    UNCHANGED <<results, peatFile, paFile, sessions, koboCache, df, survey_gdf,
                points_in_protected_areas, membership, selected_groups, multiselect,
                filtered_df, markers, alert1, alert2, prevMembership>>

(* except Exception: st.error, (None, None) is returned and cached *)
SpatialExcept(s) ==
    /\ spatialCache' = [present |-> TRUE, peat |-> NoneLayer, pa |-> NoneLayer]
    /\ lock' = 0
    /\ build' = NoBuild
    /\ peatland_gdf' = [peatland_gdf EXCEPT ![s] = NoneLayer]
    /\ protected_areas_gdf' = [protected_areas_gdf EXCEPT ![s] = NoneLayer]
    /\ errors' = [errors EXCEPT ![s] = Append(@, "SpatialDataError")]
    /\ pc' = [pc EXCEPT ![s] = "gate"]

SpatialStep(s, to) ==
    /\ lock' = s
    /\ pc' = [pc EXCEPT ![s] = to]
    /\ UNCHANGED <<spatialCache, peatland_gdf, protected_areas_gdf, errors>>

(* cache hit: the cached objects themselves, cached st.error replayed *)
SpatialCacheHit(s) ==
    /\ s \in sessions
    /\ pc[s] = "load_spatial"
    /\ spatialCache.present
    /\ peatland_gdf' = [peatland_gdf EXCEPT ![s] = spatialCache.peat]
    /\ protected_areas_gdf' = [protected_areas_gdf EXCEPT ![s] = spatialCache.pa]
    /\ errors' = [errors EXCEPT ![s] =
                    IF spatialCache.pa.none THEN Append(@, "SpatialDataError") ELSE @]
    /\ pc' = [pc EXCEPT ![s] = "gate"]
    /\ UNCHANGED <<spatialCache, lock, build>>
    /\ UnchangedBySpatialLoad

(* cache miss: take the compute lock, read the peatland file *)
ReadPeatland(s) ==
    /\ s \in sessions
    /\ pc[s] = "load_spatial"
    /\ ~spatialCache.present
    /\ lock = 0
    /\ IF peatFile.readable
       THEN /\ build' = [build EXCEPT !.peat = ReadFile(peatFile)]
            /\ SpatialStep(s, "read_pa")
       ELSE SpatialExcept(s)
    /\ UnchangedBySpatialLoad

(* variant: the layers are put into the cache as soon as they are read *)
ReadProtectedAreasPublishing(s) ==
    /\ s \in sessions
    /\ pc[s] = "read_pa"
    /\ IF paFile.readable
       THEN /\ build' = [build EXCEPT !.pa = ReadFile(paFile)]
            /\ spatialCache' = [present |-> TRUE, peat |-> build.peat,
                                pa |-> ReadFile(paFile)]
            /\ lock' = s
            /\ pc' = [pc EXCEPT ![s] = "crs_peat"]
            /\ UNCHANGED <<peatland_gdf, protected_areas_gdf, errors>>
       ELSE SpatialExcept(s)
    /\ UnchangedBySpatialLoad

ReadProtectedAreas(s) ==
    /\ s \in sessions
    /\ pc[s] = "read_pa"
    /\ IF paFile.readable
       THEN /\ build' = [build EXCEPT !.pa = ReadFile(paFile)]
            /\ SpatialStep(s, "crs_peat")
       ELSE SpatialExcept(s)
    /\ UnchangedBySpatialLoad

ReprojectPeatland(s) ==
    /\ s \in sessions
    /\ pc[s] = "crs_peat"
    /\ IF ~ToCrsRaises(build.peat)
       THEN /\ build' = [build EXCEPT !.peat = ToCrs(@)]
            /\ SpatialStep(s, "crs_pa")
       ELSE SpatialExcept(s)
    /\ UnchangedBySpatialLoad

ReprojectProtectedAreas(s) ==
    /\ s \in sessions
    /\ pc[s] = "crs_pa"
    /\ IF ~ToCrsRaises(build.pa)
       THEN /\ build' = [build EXCEPT !.pa = ToCrs(@)]
            /\ SpatialStep(s, "dates")
       ELSE SpatialExcept(s)
    /\ UnchangedBySpatialLoad

ConvertDatetimes(s) ==
    /\ s \in sessions
    /\ pc[s] = "dates"
    /\ build' = [build EXCEPT !.pa = ConvertDatetimeColumns(@)]
    /\ SpatialStep(s, "return")
    /\ UnchangedBySpatialLoad

(* return: the pair is stored in the cache and the lock released *)
ReturnLayers(s) ==
    /\ s \in sessions
    /\ pc[s] = "return"
    /\ spatialCache' = [present |-> TRUE, peat |-> build.peat, pa |-> build.pa]
    /\ peatland_gdf' = [peatland_gdf EXCEPT ![s] = build.peat]
    /\ protected_areas_gdf' = [protected_areas_gdf EXCEPT ![s] = build.pa]
    /\ lock' = 0
    /\ build' = NoBuild
    /\ pc' = [pc EXCEPT ![s] = "gate"]
    /\ UNCHANGED errors
    /\ UnchangedBySpatialLoad

(***************************************************************************)
(* The script body of one run                                              *)
(***************************************************************************)
(* if df.empty or protected_areas_gdf is None: st.warning, st.stop() *)
HaltGate(s) ==
    /\ s \in sessions
    /\ pc[s] = "gate"
    /\ IF df[s].empty \/ protected_areas_gdf[s].none
       THEN /\ errors' = [errors EXCEPT ![s] = Append(@, "HaltWarning")]
            /\ pc' = [pc EXCEPT ![s] = "halted"]
       ELSE /\ pc' = [pc EXCEPT ![s] = "join"]
            /\ UNCHANGED errors
    /\ UNCHANGED <<results, peatFile, paFile, sessions, koboCache, spatialCache,
                   lock, build, df, peatland_gdf, protected_areas_gdf, survey_gdf,
                   points_in_protected_areas, membership, selected_groups, multiselect,
                   filtered_df, markers, alert1, alert2, prevMembership>>

(* variant: the join runs on the rows of the stored group selection *)
SpatialJoinOnSelection(s) ==
    /\ s \in sessions
    /\ pc[s] = "join"
    /\ LET gdf == SurveyGdf(df[s], protected_areas_gdf[s].crs)
           joined == {row \in SJoin(gdf, protected_areas_gdf[s]) :
                         \/ ~selected_groups[s].isset
                         \/ df[s].rows[row.index].group \in selected_groups[s].v}
       IN  /\ survey_gdf' = [survey_gdf EXCEPT ![s] = gdf]
           /\ points_in_protected_areas' =
                  [points_in_protected_areas EXCEPT ![s] = joined]
           /\ membership' = [membership EXCEPT ![s] =
                  [c \in {"in_protected_area"} |-> IndexIsin(Len(df[s].rows), joined)]]
    /\ pc' = [pc EXCEPT ![s] = "filter"]
    /\ UNCHANGED <<results, peatFile, paFile, sessions, koboCache, spatialCache,
                   lock, build, df, peatland_gdf, protected_areas_gdf,
                   selected_groups, multiselect, filtered_df, markers, alert1, alert2, errors,
                   prevMembership>>

(* survey_gdf, gpd.sjoin and the in_protected_area column *)
SpatialJoin(s) ==
    /\ s \in sessions
    /\ pc[s] = "join"
    /\ LET gdf == SurveyGdf(df[s], protected_areas_gdf[s].crs)
           joined == SJoin(gdf, protected_areas_gdf[s])
       IN  /\ survey_gdf' = [survey_gdf EXCEPT ![s] = gdf]
           /\ points_in_protected_areas' =
                  [points_in_protected_areas EXCEPT ![s] = joined]
           /\ membership' = [membership EXCEPT ![s] =
                  [c \in {"in_protected_area"} |-> IndexIsin(Len(df[s].rows), joined)]]
    /\ pc' = [pc EXCEPT ![s] = "filter"]
    /\ UNCHANGED <<results, peatFile, paFile, sessions, koboCache, spatialCache,
                   lock, build, df, peatland_gdf, protected_areas_gdf,
                   selected_groups, multiselect, filtered_df, markers, alert1, alert2, errors,
                   prevMembership>>

(* [group for group in df[...].unique() if pd.notna(group)] *)
FarmerGroupOptions(frame) ==
    {frame.rows[i].group : i \in 1..Len(frame.rows)} \ {NoGroup}

(* variant: an empty selection is applied like any other *)
FilterRowsNoFallback(frame, selection) ==
    {i \in 1..Len(frame.rows) : frame.rows[i].group \in selection}

(* df[df[...].isin(selection)] when the selection is non-empty, else df *)
FilterRows(frame, selection) ==
    IF selection # {}
    THEN {i \in 1..Len(frame.rows) : frame.rows[i].group \in selection}
    ELSE 1..Len(frame.rows)

(* session-state initialisation, the multiselect and the filter; the      *)
(* first run of a session gets the default back, later runs whatever the  *)
(* user has left selected.                                                 *)
FilterRecords(s) ==
    /\ s \in sessions
    /\ pc[s] = "filter"
    /\ \E widget \in SUBSET FarmerGroupOptions(df[s]) :
          /\ selected_groups[s].isset \/ widget = FarmerGroupOptions(df[s])
          /\ multiselect' = [multiselect EXCEPT ![s] = widget]
          /\ selected_groups' = [selected_groups EXCEPT ![s] =
                                    [isset |-> TRUE, v |-> widget]]
          /\ filtered_df' = [filtered_df EXCEPT ![s] =
                                FilterRows(df[s], selected_groups'[s].v)]
    /\ pc' = [pc EXCEPT ![s] = "map"]
    /\ UNCHANGED <<results, peatFile, paFile, sessions, koboCache, spatialCache,
                   lock, build, df, peatland_gdf, protected_areas_gdf, survey_gdf,
                   points_in_protected_areas, membership, markers, alert1, alert2,
                   errors, prevMembership>>

(* color = 'red' if row['in_protected_area'] else 'black' *)
MarkerColor(flag) == IF flag THEN "red" ELSE "black"

(* folium rejects a marker location that contains NaN *)
LocationRaises(row) == row.lat.nan \/ row.lon.nan

(* the map: both layers are read into GeoJson overlays, one marker per    *)
(* filtered row                                                            *)
RenderMap(s) ==
    /\ s \in sessions
    /\ pc[s] = "map"
    /\ IF \E i \in filtered_df[s] : LocationRaises(df[s].rows[i])
       THEN /\ errors' = [errors EXCEPT ![s] = Append(@, "UncaughtException")]
            /\ pc' = [pc EXCEPT ![s] = "crashed"]
            /\ UNCHANGED markers
       ELSE /\ markers' = [markers EXCEPT ![s] =
                  [i \in filtered_df[s] |->
                      MarkerColor(membership[s]["in_protected_area"][i])]]
            /\ pc' = [pc EXCEPT ![s] = "alerts"]
            /\ UNCHANGED errors
    /\ UNCHANGED <<results, peatFile, paFile, sessions, koboCache, spatialCache,
                   lock, build, df, peatland_gdf, protected_areas_gdf, survey_gdf,
                   points_in_protected_areas, membership, selected_groups, multiselect,
                   filtered_df, alert1, alert2, prevMembership>>

(* variant: the alert is taken from df instead of filtered_df *)
AlertRowsUnfiltered(filtered, flags) == {i \in DOMAIN flags : flags[i]}

(* filtered_df[filtered_df['in_protected_area']] *)
AlertRows(filtered, flags) == {i \in filtered : flags[i]}

(* an alert container: its heading, the flag column it is filtered on,   *)
(* the listed rows and the count in the expander label                    *)
Alert(title, column, filtered, columns) ==
    [shown |-> TRUE, title |-> title, column |-> column,
     rows |-> AlertRows(filtered, columns[column]),
     num |-> Cardinality(AlertRows(filtered, columns[column]))]

(* Alert 1 and Alert 2 *)
RenderAlerts(s) ==
    /\ s \in sessions
    /\ pc[s] = "alerts"
    /\ alert1' = [alert1 EXCEPT ![s] =
          Alert("Deforested Areas", "in_protected_area", filtered_df[s], membership[s])]
    /\ alert2' = [alert2 EXCEPT ![s] =
          Alert("Protected Areas", "in_protected_area", filtered_df[s], membership[s])]
    /\ pc' = [pc EXCEPT ![s] = "done"]
    /\ UNCHANGED <<results, peatFile, paFile, sessions, koboCache, spatialCache,
                   lock, build, df, peatland_gdf, protected_areas_gdf, survey_gdf,
                   points_in_protected_areas, membership, selected_groups, multiselect,
                   filtered_df, markers, errors, prevMembership>>

(* the next script run of the session: everything but st.session_state    *)
(* and the caches starts afresh                                            *)
Rerun(s) ==
    /\ s \in sessions
    /\ pc[s] \in {"done", "halted", "crashed"}
    /\ prevMembership' = [prevMembership EXCEPT ![s] =
                             IF pc[s] = "done" THEN membership[s] ELSE @]
    /\ pc' = [pc EXCEPT ![s] = "start"]
    /\ df' = [df EXCEPT ![s] = EmptyFrame]
    /\ peatland_gdf' = [peatland_gdf EXCEPT ![s] = NoneLayer]
    /\ protected_areas_gdf' = [protected_areas_gdf EXCEPT ![s] = NoneLayer]
    /\ survey_gdf' = [survey_gdf EXCEPT ![s] = NoSurvey]
    /\ points_in_protected_areas' = [points_in_protected_areas EXCEPT ![s] = {}]
    /\ membership' = [membership EXCEPT ![s] = NoColumns]
    /\ filtered_df' = [filtered_df EXCEPT ![s] = {}]
    /\ markers' = [markers EXCEPT ![s] = NoMarkers]
    /\ alert1' = [alert1 EXCEPT ![s] = NoAlert]
    /\ alert2' = [alert2 EXCEPT ![s] = NoAlert]
    /\ errors' = [errors EXCEPT ![s] = <<>>]
    /\ UNCHANGED <<results, peatFile, paFile, sessions, koboCache, spatialCache,
                   lock, build, selected_groups, multiselect>>

Next ==
    \/ \E s \in AllSessions : LoadKoboData(s)
    \/ ExpireKoboCache
    \/ \E s \in AllSessions : SpatialCacheHit(s)
    \/ \E s \in AllSessions : ReadPeatland(s)
    \/ \E s \in AllSessions : ReadProtectedAreas(s)
    \/ \E s \in AllSessions : ReprojectPeatland(s)
    \/ \E s \in AllSessions : ReprojectProtectedAreas(s)
    \/ \E s \in AllSessions : ConvertDatetimes(s)
    \/ \E s \in AllSessions : ReturnLayers(s)
    \/ \E s \in AllSessions : HaltGate(s)
    \/ \E s \in AllSessions : SpatialJoin(s)
    \/ \E s \in AllSessions : FilterRecords(s)
    \/ \E s \in AllSessions : RenderMap(s)
    \/ \E s \in AllSessions : RenderAlerts(s)
    \/ \E s \in AllSessions : Rerun(s)

Spec == Init /\ [][Next]_vars

(* two sessions run the script concurrently against the same caches *)
InitConcurrent ==
    /\ results \in {b \in Batches : Len(b) >= 3}
    /\ peatFile \in {f \in PeatFiles : f.readable}
    /\ paFile \in {f \in ProtectedFiles : f.readable /\ Len(f.geoms) > 0}
    /\ sessions = AllSessions
    /\ InitRun

SpecConcurrent == InitConcurrent /\ [][Next]_vars

(***************************************************************************)
(* Vocabulary of the properties                                            *)
(***************************************************************************)
JoinExecuted(s) == "in_protected_area" \in DOMAIN membership[s]

InProtectedArea(s) == membership[s]["in_protected_area"]

(* whitespace-separated tokens: the non-empty pieces between spaces *)
WsTokens(loc) == SelectSeq(StrSplit(loc), LAMBDA t : Len(t) > 0)

(* at least two whitespace-separated tokens, the first two numeric *)
WellFormed(loc) ==
    /\ Len(WsTokens(loc)) >= 2
    /\ ToFloat(WsTokens(loc)[1]).ok
    /\ ToFloat(WsTokens(loc)[2]).ok

MalformedRecords(batch) == {i \in 1..Len(batch) : ~WellFormed(batch[i].loc)}

Count(seq, e) == Cardinality({i \in 1..Len(seq) : seq[i] = e})

(* C1: a batch with exactly one malformed location string is never
   aborted; the finished run carries membership results for the other
   N-1 records and reports exactly one error. *)
C1_PartialFailureOnRecords ==
    \A s \in sessions :
        (Len(results) >= 2 /\ Cardinality(MalformedRecords(results)) = 1) =>
            /\ pc[s] # "crashed"
            /\ pc[s] = "done" =>
                  /\ Len(InProtectedArea(s)) = Len(results) - 1
                  /\ Len(errors[s]) = 1

(* the layer file can be read and normalized *)
LayerLoads(f) == f.readable /\ ~ToCrsRaises(ReadFile(f))

(* C2: when exactly one of the two layers fails to load, the run is not
   halted: the failure is reported once and every record is still joined
   against the remaining layer. *)
C2_PartialFailureOnLayers ==
    \A s \in sessions :
        (LayerLoads(peatFile) # LayerLoads(paFile) /\ ~df[s].empty) =>
            /\ pc[s] # "halted"
            /\ pc[s] = "done" => Count(errors[s], "SpatialDataError") = 1

(* the point of a row lies in the interior or on the boundary of a part *)
Covers(row, b) ==
    /\ ~row.lon.nan /\ ~row.lat.nan
    /\ b.xmin <= row.lon.v /\ row.lon.v <= b.xmax
    /\ b.ymin <= row.lat.v /\ row.lat.v <= b.ymax

MatchedPolygons(row, layer) ==
    {j \in 1..Len(layer.geoms) : \E b \in layer.geoms[j] : Covers(row, b)}

(* C3: after the join every record has exactly one in_protected_area flag,
   true iff its point lies inside or on the boundary of at least one
   (constituent) polygon of the protected-areas layer; a layer without
   polygons gives false everywhere and no error. *)
C3_MembershipFlagCorrect ==
    \A s \in sessions :
        JoinExecuted(s) =>
            /\ DOMAIN InProtectedArea(s) = 1..Len(df[s].rows)
            /\ \A i \in 1..Len(df[s].rows) :
                  InProtectedArea(s)[i] <=>
                      MatchedPolygons(df[s].rows[i], protected_areas_gdf[s]) # {}
            /\ Len(protected_areas_gdf[s].geoms) = 0 =>
                  /\ \A i \in 1..Len(df[s].rows) : ~InProtectedArea(s)[i]
                  /\ pc[s] # "crashed" => errors[s] = <<>>

(* a record matching two polygons next to a record matching none *)
C3_Witness ==
    \E s \in sessions :
        /\ JoinExecuted(s)
        /\ \E i, k \in 1..Len(df[s].rows) :
              /\ Cardinality(MatchedPolygons(df[s].rows[i], protected_areas_gdf[s])) = 2
              /\ InProtectedArea(s)[i]
              /\ ~InProtectedArea(s)[k]

(* the flag column an alert with this heading has to be filtered on *)
AlertLayerColumn(title) ==
    CASE title = "Protected Areas" -> "in_protected_area"
      [] title = "Peatland" -> "in_peatland"
      [] OTHER -> "in_deforested_area"

(* C4: the finished run carries one membership flag per loaded layer, each
   computed from that layer's own polygons, and every alert lists the
   records of its own layer's flag. *)
C4_OneFlagPerLayer ==
    \A s \in sessions :
        pc[s] = "done" =>
            /\ {"in_peatland", "in_protected_area"} \subseteq DOMAIN membership[s]
            /\ \A i \in 1..Len(df[s].rows) :
                  /\ membership[s]["in_peatland"][i] <=>
                        MatchedPolygons(df[s].rows[i], peatland_gdf[s]) # {}
                  /\ membership[s]["in_protected_area"][i] <=>
                        MatchedPolygons(df[s].rows[i], protected_areas_gdf[s]) # {}
            /\ \A a \in {alert1[s], alert2[s]} :
                  /\ a.column = AlertLayerColumn(a.title)
                  /\ a.rows = {i \in filtered_df[s] : membership[s][a.column][i]}

(* C5: every point that takes part in the join has latitude in [-90, 90]
   and longitude in [-180, 180]. *)
C5_RangeInvariant ==
    \A s \in sessions :
        \A i \in 1..Len(survey_gdf[s].pts) :
            LET pt == survey_gdf[s].pts[i]
            IN  (~pt.x.nan /\ ~pt.y.nan) =>
                    /\ -90 <= pt.y.v /\ pt.y.v <= 90
                    /\ -180 <= pt.x.v /\ pt.x.v <= 180

(* what a finished load_spatial_data call hands out for the two files *)
BuiltPeatland == ToCrs(ReadFile(peatFile))
BuiltProtectedAreas == ConvertDatetimeColumns(ToCrs(ReadFile(paFile)))

(* a pair of layer references is either the finished pair or no layer *)
FullyBuiltOrAbsent(peat, pa) ==
    \/ peat.none /\ pa.none
    \/ /\ peat = BuiltPeatland /\ pa = BuiltProtectedAreas
       /\ peat.crs = "EPSG:4326" /\ pa.crs = "EPSG:4326"
       /\ pa.datecol # "datetime64"

LayersVisibleAreWhole ==
    /\ FullyBuiltOrAbsent(spatialCache.peat, spatialCache.pa)
    /\ \A s \in sessions :
          FullyBuiltOrAbsent(peatland_gdf[s], protected_areas_gdf[s])

(* C6: under any interleaving of the sessions, the cache and every run see
   either the fully built pair of layers (read, reprojected, datetime
   columns converted) or no layer, and a published cache entry never
   changes again. *)
C6_AtomicPublication ==
    [][/\ LayersVisibleAreWhole
       /\ LayersVisibleAreWhole'
       /\ spatialCache.present => spatialCache' = spatialCache]_vars

(* one session reads the published layers while the other, which built
   them from a file that needed reprojection and conversion, still holds
   them *)
C6_Witness ==
    /\ sessions = AllSessions
    /\ paFile.crs = "EPSG:3857"
    /\ paFile.datecol = "datetime64"
    /\ spatialCache.present
    /\ \A s \in sessions : ~protected_areas_gdf[s].none /\ pc[s] # "gate"

(* C7: whenever the join has executed, both loaded layers are in
   EPSG:4326, are the normalized image of their files, and the survey
   points carry the same reference system. *)
C7_SingleReferenceFrame ==
    \A s \in sessions :
        (pc[s] = "join" \/ JoinExecuted(s)) =>
            /\ ~protected_areas_gdf[s].none /\ ~peatland_gdf[s].none
            /\ protected_areas_gdf[s].crs = "EPSG:4326"
            /\ peatland_gdf[s].crs = "EPSG:4326"
            /\ ~ToCrsRaises(ReadFile(paFile)) /\ ~ToCrsRaises(ReadFile(peatFile))
            /\ JoinExecuted(s) => survey_gdf[s].crs = "EPSG:4326"

(* the join ran against layers whose files were not in WGS84 *)
C7_Witness ==
    \E s \in sessions :
        /\ JoinExecuted(s)
        /\ paFile.crs = "EPSG:3857"
        /\ peatFile.crs = "EPSG:3857"
        /\ \E i \in 1..Len(df[s].rows) : InProtectedArea(s)[i]

(* C8: a run over unchanged records and layers computes the same flags as
   the session's previous completed run, whatever the caches and the
   session state hold by then. *)
C8_Idempotence ==
    \A s \in sessions :
        (JoinExecuted(s) /\ "in_protected_area" \in DOMAIN prevMembership[s]) =>
            membership[s] = prevMembership[s]

(* a second run whose stored selection differs from the first run's and
   whose frame was fetched again after the cache entry expired *)
C8_Witness ==
    \E s \in sessions :
        /\ JoinExecuted(s)
        /\ "in_protected_area" \in DOMAIN prevMembership[s]
        /\ selected_groups[s].isset
        /\ selected_groups[s].v # FarmerGroupOptions(df[s])
        /\ \E i \in 1..Len(df[s].rows) :
              InProtectedArea(s)[i] /\ df[s].rows[i].group \notin selected_groups[s].v

(* the run did not get a frame although the server answered *)
LoaderRaised(s) == pc[s] = "crashed" /\ df[s].empty

(* C9: when every location string of the batch consists of at least two
   whitespace-separated numeric tokens, the loader parses the batch, each
   row has latitude = first token and longitude = second token, further
   tokens are ignored, and the join point is (x = longitude, y = latitude). *)
C9_CoordinateParsing ==
    \A s \in sessions :
        (Len(results) > 0 /\ \A i \in 1..Len(results) : WellFormed(results[i].loc)) =>
            /\ ~LoaderRaised(s)
            /\ ~df[s].empty =>
                  \A i \in 1..Len(results) :
                      /\ df[s].rows[i].lat = Num(ToFloat(WsTokens(results[i].loc)[1]).v)
                      /\ df[s].rows[i].lon = Num(ToFloat(WsTokens(results[i].loc)[2]).v)
            /\ JoinExecuted(s) =>
                  \A i \in 1..Len(results) :
                      /\ survey_gdf[s].pts[i].x = df[s].rows[i].lon
                      /\ survey_gdf[s].pts[i].y = df[s].rows[i].lat

RedMarkers(s) == {i \in DOMAIN markers[s] : markers[s][i] = "red"}

(* C10: in a finished run there is one marker per filtered record, red iff
   the record's in_protected_area flag is true and black otherwise; Alert 1
   and Alert 2 both list exactly the filtered records whose flag is true,
   so both counts equal the number of red markers. *)
C10_PresentationFollowsFlag ==
    \A s \in sessions :
        pc[s] = "done" =>
            /\ DOMAIN markers[s] = filtered_df[s]
            /\ \A i \in filtered_df[s] :
                  /\ markers[s][i] = "red" <=> InProtectedArea(s)[i]
                  /\ markers[s][i] = "black" <=> ~InProtectedArea(s)[i]
            /\ alert1[s].rows = {i \in filtered_df[s] : InProtectedArea(s)[i]}
            /\ alert2[s].rows = {i \in filtered_df[s] : InProtectedArea(s)[i]}
            /\ alert1[s].num = alert2[s].num
            /\ alert1[s].num = Cardinality(RedMarkers(s))

(* a finished run with a red and a black marker and a flagged record that
   the filter has removed *)
C10_Witness ==
    \E s \in sessions :
        /\ pc[s] = "done"
        /\ \E i, k \in filtered_df[s] : markers[s][i] = "red" /\ markers[s][k] = "black"
        /\ \E i \in 1..Len(df[s].rows) : i \notin filtered_df[s] /\ InProtectedArea(s)[i]
        /\ alert1[s].num = 1

(* C11: across the reruns of a session, the filtered records are those
   whose farmer group is in the stored selection when it is non-empty and
   all records (missing group included) when it is empty; the selection is
   set for the first time to all non-missing groups, stays set, and always
   equals the value the multiselect returned last; the filter step leaves
   every in_protected_area flag as the join wrote it. *)
C11_GroupFilterAcrossReruns ==
    [][\A s \in sessions :
          /\ pc'[s] \in {"map", "alerts", "done"} =>
                filtered_df'[s] =
                    IF selected_groups'[s].v # {}
                    THEN {i \in 1..Len(df'[s].rows) :
                             df'[s].rows[i].group \in selected_groups'[s].v}
                    ELSE 1..Len(df'[s].rows)
          /\ (~selected_groups[s].isset /\ selected_groups'[s].isset) =>
                selected_groups'[s].v =
                    {results[i].group : i \in 1..Len(results)} \ {NoGroup}
          /\ selected_groups[s].isset => selected_groups'[s].isset
          /\ selected_groups'[s].isset =>
                selected_groups'[s].v = multiselect'[s]
          /\ pc[s] = "filter" => membership'[s] = membership[s]]_vars

(* a later run of a session in which the selection has been emptied: the
   filtered frame holds every record, one without a group and one flagged *)
C11_Witness ==
    \E s \in sessions :
        /\ pc[s] = "map"
        /\ "in_protected_area" \in DOMAIN prevMembership[s]
        /\ selected_groups[s].isset
        /\ selected_groups[s].v = {}
        /\ filtered_df[s] = 1..Len(df[s].rows)
        /\ \E i \in filtered_df[s] : df[s].rows[i].group = NoGroup
        /\ \E i \in filtered_df[s] : InProtectedArea(s)[i]

====
